---------------------------- MODULE Spec2Model ----------------------------
(***************************************************************************)
(* Model of the M-PESA relay backend (src/index.js): the POST /api/pay     *)
(* handler with its token acquisition and single retry on an expired      *)
(* token, and the GET /api/token debug endpoint.                           *)
(*                                                                         *)
(* JavaScript values are records [t, s, n]: t is the type tag, s the       *)
(* characters of a string (a sequence of one-character strings), n the     *)
(* value of a number.  Gateway bodies are records of such values.          *)
(***************************************************************************)
EXTENDS Integers, Sequences, FiniteSets, TLC

(***************************************************************************)
(* Bounds of the model.                                                    *)
(***************************************************************************)
\* Length of the longest access token the modelled gateway hands out.
MaxTokLen == 8

\* Length of the longest run of leading characters put in front of a phone
\* number given to the normaliser.
MaxPrefixLen == 2

(***************************************************************************)
(* JavaScript values.                                                      *)
(***************************************************************************)
Undefined == [t |-> "undefined", s |-> <<>>, n |-> 0]
Null      == [t |-> "null", s |-> <<>>, n |-> 0]
Str(cs)   == [t |-> "string", s |-> cs, n |-> 0]
Num(k)    == [t |-> "number", s |-> <<>>, n |-> k]
\* What an `await` yields when the awaited promise rejects: control goes to
\* the enclosing catch clause.
Thrown    == [t |-> "thrown", s |-> <<>>, n |-> 0]
\* A request-body object whose toString is not callable: String(p) throws.
BadObject == [t |-> "object", s |-> <<>>, n |-> 0]

\* JavaScript truthiness, as used by !x, x || y and if (x).
Truthy(v) ==
  CASE v.t = "undefined" -> FALSE
    [] v.t = "null"      -> FALSE
    [] v.t = "string"    -> v.s # <<>>
    [] v.t = "number"    -> v.n # 0
    [] OTHER             -> TRUE

\* x || y
OrElse(x, y) == IF Truthy(x) THEN x ELSE y

(***************************************************************************)
(* Strings as character sequences.                                         *)
(***************************************************************************)
Min(a, b) == IF a < b THEN a ELSE b

\* String.prototype.slice(0, k)
SliceFromStart(cs, k) == SubSeq(cs, 1, Min(k, Len(cs)))

\* String.prototype.slice(1)
SliceRest(cs) == SubSeq(cs, 2, Len(cs))

\* String.prototype.startsWith
StartsWith(cs, pre) ==
  /\ Len(pre) <= Len(cs)
  /\ SubSeq(cs, 1, Len(pre)) = pre

UpperChars == <<"A","B","C","D","E","F","G","H","I","J","K","L","M",
                "N","O","P","Q","R","S","T","U","V","W","X","Y","Z">>
LowerChars == <<"a","b","c","d","e","f","g","h","i","j","k","l","m",
                "n","o","p","q","r","s","t","u","v","w","x","y","z">>

\* Case folding of one character (the i flag of the regular expression).
LowerChar(c) ==
  IF \E i \in 1..Len(UpperChars) : UpperChars[i] = c
  THEN LowerChars[CHOOSE i \in 1..Len(UpperChars) : UpperChars[i] = c]
  ELSE c

LowerSeq(cs) == [i \in 1..Len(cs) |-> LowerChar(cs[i])]

\* An unanchored, case-insensitive search for a literal pattern.
ContainsIgnoreCase(cs, pat) ==
  \E i \in 1..(Len(cs) - Len(pat) + 1) :
    LowerSeq(SubSeq(cs, i, i + Len(pat) - 1)) = LowerSeq(pat)

Ellipsis == <<".", ".", ".">>

(***************************************************************************)
(* The phone normaliser of the pay handler.                                *)
(***************************************************************************)
Whitespace == {" ", "\t", "\n"}
Digits == <<"0","1","2","3","4","5","6","7","8","9">>
IsDigit(c) == \E i \in 1..10 : Digits[i] = c

RECURSIVE NatToChars(_)
NatToChars(k) ==
  IF k < 10 THEN <<Digits[k + 1]>>
  ELSE NatToChars(k \div 10) \o <<Digits[(k % 10) + 1]>>

\* String(v) for the values a JSON body can hold; BadObject has no string.
ToStringChars(v) ==
  CASE v.t = "string" -> v.s
    [] v.t = "number" -> IF v.n < 0 THEN <<"-">> \o NatToChars(0 - v.n)
                         ELSE NatToChars(v.n)
    [] v.t = "null"   -> <<"n","u","l","l">>
    [] OTHER          -> <<"u","n","d","e","f","i","n","e","d">>

\* String(p) throws a TypeError for an object that has no primitive value.
StringThrows(v) == v.t = "object"

IsNotSpace(c) == c \notin Whitespace

\* s.trim() followed by s.replace(/\s+/g, "")
StripWhitespace(cs) == SelectSeq(cs, IsNotSpace)

\* /^7\d{8}$/.test(s)
IsShortKenyan(cs) ==
  /\ Len(cs) = 9
  /\ cs[1] = "7"
  /\ \A i \in 2..9 : IsDigit(cs[i])

Prefix254 == <<"2", "5", "4">>

\* Mutant of the normaliser: the leading 0 is looked for before the leading
\* + is dropped.
normalizePhoneSwapped(p) ==
  IF ~Truthy(p) THEN p
  ELSE
    LET s1 == StripWhitespace(ToStringChars(p))
        s2 == IF StartsWith(s1, <<"0">>) THEN Prefix254 \o SliceRest(s1) ELSE s1
        s3 == IF StartsWith(s2, <<"+">>) THEN SliceRest(s2) ELSE s2
        s4 == IF ~StartsWith(s3, Prefix254) /\ IsShortKenyan(s3)
              THEN Prefix254 \o s3 ELSE s3
    IN  Str(s4)

\* Mutant of the normaliser: '254' + s in place of '254' + s.slice(1).
normalizePhoneKeepsZero(p) ==
  IF ~Truthy(p) THEN p
  ELSE
    LET s1 == StripWhitespace(ToStringChars(p))
        s2 == IF StartsWith(s1, <<"+">>) THEN SliceRest(s1) ELSE s1
        s3 == IF StartsWith(s2, <<"0">>) THEN Prefix254 \o s2 ELSE s2
        s4 == IF ~StartsWith(s3, Prefix254) /\ IsShortKenyan(s3)
              THEN Prefix254 \o s3 ELSE s3
    IN  Str(s4)

normalizePhone(p) ==
  IF ~Truthy(p) THEN p
  ELSE
    LET s1 == StripWhitespace(ToStringChars(p))
        s2 == IF StartsWith(s1, <<"+">>) THEN SliceRest(s1) ELSE s1
        s3 == IF StartsWith(s2, <<"0">>) THEN Prefix254 \o SliceRest(s2) ELSE s2
        s4 == IF ~StartsWith(s3, Prefix254) /\ IsShortKenyan(s3)
              THEN Prefix254 \o s3 ELSE s3
    IN  Str(s4)

(***************************************************************************)
(* Bodies exchanged with the gateway.                                      *)
(*   kind "none"  : no HTTP response at all (err.response is undefined)    *)
(*   kind "empty" : a response with an empty body (data is "")             *)
(*   kind "text"  : a non-JSON body, a string without properties           *)
(*   kind "json"  : an object; absent properties are Undefined             *)
(*   kind "null"  : the JSON literal null                                  *)
(*   kind "message": err.message, the text of a transport error            *)
(*   kind "absent": no body at all (a response field that is not set)      *)
(***************************************************************************)
Body(kind, rc, ec, em, at) ==
  [kind |-> kind, ResponseCode |-> rc, errorCode |-> ec,
   errorMessage |-> em, access_token |-> at]

NoResponse   == Body("none", Undefined, Undefined, Undefined, Undefined)
EmptyBody    == Body("empty", Undefined, Undefined, Undefined, Undefined)
TextBody     == Body("text", Undefined, Undefined, Undefined, Undefined)
NullBody     == Body("null", Undefined, Undefined, Undefined, Undefined)
ErrMessage   == Body("message", Undefined, Undefined, Undefined, Undefined)
AbsentBody   == Body("absent", Undefined, Undefined, Undefined, Undefined)
JsonBody(rc, ec, em, at) == Body("json", rc, ec, em, at)

\* Truthiness of a body value (data, err.response?.data).
BodyTruthy(b) == b.kind \in {"text", "json", "message"}

\* Reading a property of null or undefined throws a TypeError.
PropertyReadThrows(b) == b.kind \in {"null", "none", "absent"}

(***************************************************************************)
(* Access tokens of the OAuth endpoint.                                    *)
(***************************************************************************)
\* slice(0,6) of the masked token
MASK_LEN == 6

TokenCharsA == <<"e","y","J","h","b","G","c","i","O","k","9","w">>
TokenCharsB == <<"Q","m","V","h","c","m","V","y","X","z","1","p">>

TokenLens == {MASK_LEN - 1, MASK_LEN, MaxTokLen}

\* The token strings the gateway may issue: short ones, ones of exactly the
\* mask length and longer ones, from two families so that a refreshed token
\* can differ from the stale one.
TokenStrings ==
  {Str(SubSeq(TokenCharsA, 1, k)) : k \in TokenLens}
    \cup {Str(SubSeq(TokenCharsB, 1, MaxTokLen))}

\* Replies of GET /oauth/v1/generate: ok is a 2xx status.
OAuthReply(ok, data) == [ok |-> ok, data |-> data]

OAuthReplies ==
  {OAuthReply(TRUE, JsonBody(Undefined, Undefined, Undefined, tk)) :
      tk \in TokenStrings \cup {Str(<<>>), Num(12345), Undefined}}
    \cup {OAuthReply(TRUE, NullBody)}
    \cup {OAuthReply(FALSE, NoResponse),
          OAuthReply(FALSE, JsonBody(Undefined, Undefined, Undefined, Undefined))}

MockAccessToken ==
  Str(<<"m","o","c","k","-","a","c","c","e","s","s","-","t","o","k","e","n">>)

\* Mutant of getAccessToken: no try / catch around the call.
TokenFromReplyUncaught(reply) ==
  IF reply.ok /\ ~PropertyReadThrows(reply.data)
  THEN reply.data.access_token
  ELSE Thrown

\* getAccessToken, the part after the await: the token of a 2xx reply, null
\* when the call failed or reading the token threw inside the try block.
TokenFromReply(reply) ==
  IF reply.ok /\ ~PropertyReadThrows(reply.data)
  THEN reply.data.access_token
  ELSE Null

(***************************************************************************)
(* Replies of POST /mpesa/stkpush/v1/processrequest.                       *)
(***************************************************************************)
InvalidTokenCode == <<"4","0","4",".","0","0","1",".","0","3">>
OtherErrorCode   == <<"4","0","0",".","0","0","2",".","0","2">>
InvalidTokenPattern ==
  <<"I","n","v","a","l","i","d"," ","A","c","c","e","s","s"," ","T","o","k","e","n">>
LowerCaseTokenMessage ==
  <<"E","r","r","o","r",":"," ","i","n","v","a","l","i","d"," ",
    "a","c","c","e","s","s"," ","t","o","k","e","n">>
BadRequestMessage == <<"B","a","d"," ","R","e","q","u","e","s","t">>

StkReply(ok, data) == [ok |-> ok, data |-> data]
Pending == [ok |-> FALSE, data |-> AbsentBody]

StkAccepted  == JsonBody(Str(<<"0">>), Undefined, Undefined, Undefined)
StkRejected  == JsonBody(Str(<<"1">>), Undefined, Undefined, Undefined)
StkNumericZero == JsonBody(Num(0), Undefined, Undefined, Undefined)
StkNoCode    == JsonBody(Undefined, Undefined, Undefined, Undefined)

StkSuccessBodies == {StkAccepted, StkRejected, StkNumericZero, StkNoCode, EmptyBody}

StkErrorBodies ==
  {NoResponse, EmptyBody, TextBody,
   JsonBody(Undefined, Str(InvalidTokenCode), Undefined, Undefined),
   JsonBody(Undefined, Str(OtherErrorCode), Str(LowerCaseTokenMessage), Undefined),
   JsonBody(Undefined, Str(OtherErrorCode), Str(BadRequestMessage), Undefined)}

StkReplies ==
  {StkReply(TRUE, d) : d \in StkSuccessBodies}
    \cup {StkReply(FALSE, d) : d \in StkErrorBodies}

\* Mutants of the retry condition: the message test left out, and every
\* error that carries a body taken for an expired token.
IsInvalidTokenErrorCodeOnly(remote) ==
  /\ BodyTruthy(remote)
  /\ remote.errorCode = Str(InvalidTokenCode)

IsInvalidTokenErrorAnyBody(remote) == BodyTruthy(remote)

\* The retry condition of the catch block.
IsInvalidTokenError(remote) ==
  /\ BodyTruthy(remote)
  /\ \/ remote.errorCode = Str(InvalidTokenCode)
     \/ ContainsIgnoreCase(OrElse(remote.errorMessage, Str(<<>>)).s,
                           InvalidTokenPattern)

\* Mutant of the error details: the gateway's body dropped.
ErrorDetailsMessageOnly(remote) == ErrMessage

\* remote || err.message, err2.response?.data || err2.message
ErrorDetails(remote) == IF BodyTruthy(remote) THEN remote ELSE ErrMessage

\* response.data || null
ResponseDetails(data) == IF BodyTruthy(data) THEN data ELSE NullBody

\* Mutant of the acceptance test: == in place of ===.
IsAcceptedLoose(data) ==
  /\ BodyTruthy(data)
  /\ data.ResponseCode \in {Str(<<"0">>), Num(0)}

\* response.data && response.data.ResponseCode === "0"
IsAccepted(data) == BodyTruthy(data) /\ data.ResponseCode = Str(<<"0">>)

(***************************************************************************)
(* The payload of the push request.                                        *)
(***************************************************************************)
BUSINESS_SHORTCODE == "BUSINESS_SHORTCODE"
MPESA_PASSKEY      == "MPESA_PASSKEY"
CALLBACK_URL       == "CALLBACK_URL"

\* new Date().toISOString() at two instants one second apart.
Nows ==
  {<<"2","0","2","6","-","1","1","-","0","1","T","0","9",":","3","0",":","5","9",
     ".","1","2","3","Z">>,
   <<"2","0","2","6","-","1","1","-","0","1","T","0","9",":","3","1",":","0","0",
     ".","0","0","7","Z">>}

IsNotDateSeparator(c) == c \notin {"-", "T", ":", ".", "Z"}

\* now.toISOString().replace(/[-T:\.Z]/g, "").slice(0, 14)
TimestampOf(now) == SliceFromStart(SelectSeq(now, IsNotDateSeparator), 14)

\* Buffer.from(shortcode + passkey + timestamp).toString("base64"), kept
\* as the triple it encodes.
PasswordOf(timestamp) == <<BUSINESS_SHORTCODE, MPESA_PASSKEY, timestamp>>

Customer == Str(<<"c","u","s","t","o","m","e","r">>)

BuildPayload(b, partyA, now) ==
  [BusinessShortCode |-> BUSINESS_SHORTCODE,
   Password          |-> PasswordOf(TimestampOf(now)),
   Timestamp         |-> TimestampOf(now),
   TransactionType   |-> "CustomerPayBillOnline",
   Amount            |-> b.amount,
   PartyA            |-> partyA,
   PartyB            |-> BUSINESS_SHORTCODE,
   PhoneNumber       |-> partyA,
   CallBackURL       |-> CALLBACK_URL,
   AccountReference  |-> "MPESA_PAYMENT",
   TransactionDesc   |-> ToStringChars(OrElse(b.name, Customer))]

NoPayload ==
  [BusinessShortCode |-> "", Password |-> <<>>, Timestamp |-> <<>>,
   TransactionType |-> "", Amount |-> Undefined, PartyA |-> Undefined,
   PartyB |-> "", PhoneNumber |-> Undefined, CallBackURL |-> "",
   AccountReference |-> "", TransactionDesc |-> <<>>]

(***************************************************************************)
(* Request bodies and HTTP responses.                                      *)
(***************************************************************************)
Phone0712 == Str(<<"0","7","1","2","3","4","5","6","7","8">>)
NameAnn   == Str(<<"A","n","n">>)

Phones  == {Undefined, Str(<<>>), Phone0712, BadObject}
Amounts == {Undefined, Num(0), Num(0 - 5), Num(10)}
Names   == {Undefined, NameAnn}

ReqBody(phone, amount, name) == [phone |-> phone, amount |-> amount, name |-> name]
Bodies == {ReqBody(p, a, n) : p \in Phones, a \in Amounts, n \in Names}
NoBody == ReqBody(Undefined, Undefined, Undefined)

\* The items of CallbackMetadata in the sample of /simulate-callback.
CallbackItems(amount, receipt, phone) ==
  [Amount |-> amount, MpesaReceiptNumber |-> receipt, PhoneNumber |-> phone]
NoCallback == CallbackItems(Undefined, "", Undefined)

HttpResponse(status, success, message, details, token) ==
  [status |-> status, success |-> success, message |-> message,
   details |-> details, token |-> token, callback |-> NoCallback]

DefaultAmount == Num(10)
DefaultPhone  == Str(<<"2","5","4","7","0","8","3","7","4","1","4","9">>)

\* res.json({ success: true, callback: sample })
CallbackResponse(b) ==
  [status |-> 200, success |-> TRUE, message |-> "", details |-> AbsentBody,
   token |-> Undefined,
   callback |-> CallbackItems(OrElse(b.amount, DefaultAmount), "ABC123XYZ",
                              OrElse(b.phone, DefaultPhone))]

\* Mutant of the validation: the amount is not looked at.
MissingPhoneOnly(b) == ~Truthy(b.phone)

\* !phone || !amount
MissingFields(b) == ~Truthy(b.phone) \/ ~Truthy(b.amount)

\* token.slice(0,6) + '...'
MaskToken(tok) == Str(SliceFromStart(tok.s, MASK_LEN) \o Ellipsis)

\* token.slice is not a function for a token that is not a string.
SliceThrows(tok) == tok.t # "string"

MockMaskedToken == Str(<<"m","o","c","k","-","a">> \o Ellipsis)

(***************************************************************************)
(* State.                                                                  *)
(***************************************************************************)
Reqs == {"r1", "r2"}

VARIABLES
  MPESA_MOCK,       \* process.env.MPESA_MOCK === 'true'
  CONSUMER_KEY,     \* process.env.CONSUMER_KEY
  CONSUMER_SECRET,  \* process.env.CONSUMER_SECRET
  route,            \* route[r]: the endpoint request r was sent to
  body,             \* body[r]: req.body
  pc,               \* pc[r]: where the handler of r is suspended
  ret,              \* ret[r]: where getAccessToken returns to
  access_token,     \* access_token[r]: the handler's local token
  payload,          \* payload[r]: the handler's local payload
  response,         \* response[r]: the handler's local "let response"
  calls,            \* calls[r]: outbound calls of r, with their replies
  acquisitions,     \* acquisitions[r]: calls of getAccessToken made for r
  sent,             \* sent[r]: HTTP responses written to res
  phoneIn,          \* the value handed to normalizePhone on its own
  normalized,       \* its results: of phoneIn, then of the result
  built             \* the payload built from phoneIn

normVars == <<phoneIn, normalized, built>>
config == <<MPESA_MOCK, CONSUMER_KEY, CONSUMER_SECRET>>
vars == <<MPESA_MOCK, CONSUMER_KEY, CONSUMER_SECRET, route, body, pc, ret,
          access_token, payload, response, calls, acquisitions, sent,
          phoneIn, normalized, built>>
handlerVars == <<config, route, body, pc, ret, access_token, payload, response,
                 calls, acquisitions, sent>>

Unassigned == [assigned |-> FALSE, data |-> AbsentBody]
Assigned(data) == [assigned |-> TRUE, data |-> data]

Call(kind, bearer, pl, reply) ==
  [kind |-> kind, bearer |-> bearer, payload |-> pl, reply |-> reply]

Routes == {"pay", "token", "simulate-callback"}

\* The requests in `active` have arrived, each with a body out of `bodies`;
\* the others never arrive.
InitWith(active, bodies) ==
  /\ MPESA_MOCK \in BOOLEAN
  /\ CONSUMER_KEY \in {Undefined, Str(<<"k">>)}
  /\ CONSUMER_SECRET \in {Undefined, Str(<<"s">>)}
  /\ route \in [Reqs -> Routes]
  /\ body \in [Reqs -> bodies \cup {NoBody}]
  /\ \A r \in Reqs : (r \notin active \/ route[r] = "token") => body[r] = NoBody
  /\ \A r \in Reqs : route[r] = "simulate-callback" => body[r].name = Undefined
  /\ \A r \in Reqs : r \notin active => route[r] = "pay"
  /\ pc = [r \in Reqs |-> IF r \in active THEN "start" ELSE "idle"]
  /\ ret = [r \in Reqs |-> "none"]
  /\ access_token = [r \in Reqs |-> Undefined]
  /\ payload = [r \in Reqs |-> NoPayload]
  /\ response = [r \in Reqs |-> Unassigned]
  /\ calls = [r \in Reqs |-> <<>>]
  /\ acquisitions = [r \in Reqs |-> 0]
  /\ sent = [r \in Reqs |-> <<>>]

\* The normaliser is not exercised on its own.
NormIdle ==
  /\ phoneIn = Undefined
  /\ normalized = <<>>
  /\ built = NoPayload

Init == InitWith({"r1"}, Bodies) /\ NormIdle

(***************************************************************************)
(* Steps of the handlers.                                                  *)
(***************************************************************************)
\* res.status(..).json(..) followed by the end of the handler at `next`.
Respond(r, resp, next) ==
  /\ sent' = [sent EXCEPT ![r] = Append(@, resp)]
  /\ pc' = [pc EXCEPT ![r] = next]

\* `await getAccessToken()` with the continuation `back`.
CallGetAccessToken(r, back) ==
  /\ pc' = [pc EXCEPT ![r] = "getAccessToken"]
  /\ ret' = [ret EXCEPT ![r] = back]
  /\ acquisitions' = [acquisitions EXCEPT ![r] = @ + 1]

\* Mutant of stkRequest: the closure keeps the token of the first submission.
SendStkStale(r, token, pl) ==
  LET first == IF Len(calls[r]) >= 2 THEN calls[r][2].bearer ELSE token
  IN  calls' = [calls EXCEPT ![r] = Append(@, Call("stk", first, pl, Pending))]

\* Mutant of stkRequest: the payload is built anew, with the time of the
\* call, on every submission.
SendStkRebuilt(r, token, pl) ==
  LET later == CHOOSE n \in Nows : Len(calls[r]) >= 2 => TimestampOf(n) # pl.Timestamp
      again == [pl EXCEPT !.Timestamp = TimestampOf(later),
                          !.Password = PasswordOf(TimestampOf(later))]
  IN  calls' = [calls EXCEPT ![r] = Append(@, Call("stk", token, again, Pending))]

\* Mutant of stkRequest: the token lives in one variable of the module, last
\* written by whichever request acquired one.
SendStkShared(r, token, pl) ==
  LET other == CHOOSE q \in Reqs : q # r
      shared == IF Truthy(access_token[other]) THEN access_token[other] ELSE token
  IN  calls' = [calls EXCEPT ![r] = Append(@, Call("stk", shared, pl, Pending))]

\* stkRequest(token) up to its await.
SendStk(r, token, pl) ==
  calls' = [calls EXCEPT ![r] = Append(@, Call("stk", token, pl, Pending))]

\* The reply to the call the handler is waiting for.
Receive(r, reply) ==
  calls' = [calls EXCEPT ![r] = [@ EXCEPT ![Len(@)].reply = reply]]

\* The handler ends after a `return res...`.
Returned == "done"

\* Mutant: the `return` is missing and control falls out of the catch block.
FallsThrough == "check"

\* The `return` of the non-retryable branch of the catch block.
AfterFirstFailure == Returned

\* Mutant: the resubmission is handled like a first submission again.
RetryAwaitLoops == "stk_wait"

\* The resubmission awaits inside its own try / catch (err2).
RetryAwait == "stk_retry_wait"

ServerErrorResponse ==
  HttpResponse(500, FALSE, "Server error while processing payment.",
               AbsentBody, Undefined)

NotConfiguredResponse ==
  HttpResponse(500, FALSE,
    "Server not configured to fetch access token. Check environment variables.",
    AbsentBody, Undefined)

\* POST /api/pay: validation and the mock short-circuit.
PayStart(r) ==
  /\ pc[r] = "start"
  /\ route[r] = "pay"
  /\ IF MissingFields(body[r])
     THEN /\ Respond(r, HttpResponse(400, FALSE,
                        "Missing phone or amount in request body.",
                        AbsentBody, Undefined), Returned)
          /\ UNCHANGED <<ret, acquisitions>>
     ELSE IF MPESA_MOCK
     THEN /\ Respond(r, HttpResponse(200, TRUE,
                        "STK Push sent to phone. (mock)",
                        AbsentBody, Undefined), Returned)
          /\ UNCHANGED <<ret, acquisitions>>
     ELSE /\ CallGetAccessToken(r, "pay_token")
          /\ UNCHANGED sent
  /\ UNCHANGED <<config, normVars, route, body, access_token, payload, response, calls>>

\* getAccessToken up to its await.
GetAccessToken(r) ==
  /\ pc[r] = "getAccessToken"
  /\ IF MPESA_MOCK
     THEN /\ access_token' = [access_token EXCEPT ![r] = MockAccessToken]
          /\ pc' = [pc EXCEPT ![r] = ret[r]]
          /\ UNCHANGED calls
     ELSE IF ~Truthy(CONSUMER_KEY) \/ ~Truthy(CONSUMER_SECRET)
     THEN /\ access_token' = [access_token EXCEPT ![r] = Null]
          /\ pc' = [pc EXCEPT ![r] = ret[r]]
          /\ UNCHANGED calls
     ELSE /\ calls' = [calls EXCEPT ![r] =
                         Append(@, Call("oauth", Undefined, NoPayload, Pending))]
          /\ pc' = [pc EXCEPT ![r] = "oauth_wait"]
          /\ UNCHANGED access_token
  /\ UNCHANGED <<config, normVars, route, body, ret, payload, response, acquisitions, sent>>

\* getAccessToken after its await: the OAuth endpoint replied or failed.
OAuthReturn(r) ==
  /\ pc[r] = "oauth_wait"
  /\ \E reply \in OAuthReplies :
       /\ Receive(r, reply)
       /\ access_token' = [access_token EXCEPT ![r] = TokenFromReply(reply)]
  /\ pc' = [pc EXCEPT ![r] = ret[r]]
  /\ UNCHANGED <<config, normVars, route, body, ret, payload, response, acquisitions, sent>>

\* POST /api/pay from the token check to the first submission.
PayAfterToken(r) ==
  /\ pc[r] = "pay_token"
  /\ IF access_token[r] = Thrown
     THEN /\ Respond(r, ServerErrorResponse, "done")
          /\ UNCHANGED <<payload, response, calls>>
     ELSE IF ~Truthy(access_token[r])
     THEN /\ Respond(r, NotConfiguredResponse, Returned)
          /\ UNCHANGED <<payload, response, calls>>
     ELSE IF StringThrows(body[r].phone)
     THEN /\ Respond(r, ServerErrorResponse, "done")
          /\ UNCHANGED <<payload, response, calls>>
     ELSE \E now \in Nows :
            LET pl == BuildPayload(body[r], normalizePhone(body[r].phone), now)
            IN  /\ payload' = [payload EXCEPT ![r] = pl]
                /\ IF MPESA_MOCK
                   THEN /\ response' = [response EXCEPT ![r] = Assigned(StkAccepted)]
                        /\ pc' = [pc EXCEPT ![r] = "check"]
                        /\ UNCHANGED calls
                   ELSE /\ SendStk(r, access_token[r], pl)
                        /\ pc' = [pc EXCEPT ![r] = "stk_wait"]
                        /\ UNCHANGED response
                /\ UNCHANGED sent
  /\ UNCHANGED <<config, normVars, route, body, ret, access_token, acquisitions>>

\* The first submission returned: success, or the catch block.
StkReturn(r) ==
  /\ pc[r] = "stk_wait"
  /\ \E reply \in StkReplies :
       /\ Receive(r, reply)
       /\ IF reply.ok
          THEN /\ response' = [response EXCEPT ![r] = Assigned(reply.data)]
               /\ pc' = [pc EXCEPT ![r] = "check"]
               /\ UNCHANGED <<ret, acquisitions, sent>>
          ELSE IF IsInvalidTokenError(reply.data)
          THEN /\ CallGetAccessToken(r, "pay_refresh")
               /\ UNCHANGED <<response, sent>>
          ELSE /\ Respond(r, HttpResponse(502, FALSE, "STK request failed",
                             ErrorDetails(reply.data), Undefined),
                          AfterFirstFailure)
               /\ UNCHANGED <<response, ret, acquisitions>>
  /\ UNCHANGED <<config, normVars, route, body, access_token, payload>>

\* The catch block after the token refresh: resubmit or give up.
PayAfterRefresh(r) ==
  /\ pc[r] = "pay_refresh"
  /\ IF access_token[r] = Thrown
     THEN /\ Respond(r, ServerErrorResponse, "done")
          /\ UNCHANGED calls
     ELSE IF Truthy(access_token[r])
     THEN /\ SendStk(r, access_token[r], payload[r])
          /\ pc' = [pc EXCEPT ![r] = RetryAwait]
          /\ UNCHANGED sent
     ELSE /\ Respond(r, HttpResponse(502, FALSE,
                        "Unable to refresh access token. Check credentials.",
                        AbsentBody, Undefined), Returned)
          /\ UNCHANGED calls
  /\ UNCHANGED <<config, normVars, route, body, ret, access_token, payload, response,
                 acquisitions>>

\* The resubmission returned.
StkRetryReturn(r) ==
  /\ pc[r] = "stk_retry_wait"
  /\ \E reply \in StkReplies :
       /\ Receive(r, reply)
       /\ IF reply.ok
          THEN /\ response' = [response EXCEPT ![r] = Assigned(reply.data)]
               /\ pc' = [pc EXCEPT ![r] = "check"]
               /\ UNCHANGED sent
          ELSE /\ Respond(r, HttpResponse(502, FALSE,
                             "STK request failed after token refresh",
                             ErrorDetails(reply.data), Undefined), Returned)
               /\ UNCHANGED response
  /\ UNCHANGED <<config, normVars, route, body, ret, access_token, payload, acquisitions>>

\* The response-code check; reading response.data of an unassigned response
\* throws into the outer catch.
PayCheck(r) ==
  /\ pc[r] = "check"
  /\ IF ~response[r].assigned
     THEN Respond(r, ServerErrorResponse, "done")
     ELSE IF IsAccepted(response[r].data)
     THEN Respond(r, HttpResponse(200, TRUE, "STK Push sent to phone.",
                                  AbsentBody, Undefined), "done")
     ELSE Respond(r, HttpResponse(400, FALSE, "Failed to send STK Push.",
                                  ResponseDetails(response[r].data), Undefined),
                  "done")
  /\ UNCHANGED <<config, normVars, route, body, ret, access_token, payload, response,
                 calls, acquisitions>>

\* GET /api/token up to the await.
TokenStart(r) ==
  /\ pc[r] = "start"
  /\ route[r] = "token"
  /\ IF MPESA_MOCK
     THEN /\ Respond(r, HttpResponse(200, TRUE, "Fetched access token (mock)",
                                     AbsentBody, MockMaskedToken), Returned)
          /\ UNCHANGED <<ret, acquisitions>>
     ELSE /\ CallGetAccessToken(r, "tk_token")
          /\ UNCHANGED sent
  /\ UNCHANGED <<config, normVars, route, body, access_token, payload, response, calls>>

\* GET /api/token after the await.
TokenRespond(r) ==
  /\ pc[r] = "tk_token"
  /\ IF access_token[r] = Thrown \/ (Truthy(access_token[r]) /\ SliceThrows(access_token[r]))
     THEN Respond(r, HttpResponse(500, FALSE, "Error fetching token",
                                  ErrMessage, Undefined), Returned)
     ELSE IF ~Truthy(access_token[r])
     THEN Respond(r, HttpResponse(502, FALSE,
                     "Unable to fetch access token. Check credentials.",
                     AbsentBody, Undefined), Returned)
     ELSE Respond(r, HttpResponse(200, TRUE, "Fetched access token",
                                  AbsentBody, MaskToken(access_token[r])),
                  Returned)
  /\ UNCHANGED <<config, normVars, route, body, ret, access_token, payload, response,
                 calls, acquisitions>>

\* POST /simulate-callback
SimulateCallback(r) ==
  /\ pc[r] = "start"
  /\ route[r] = "simulate-callback"
  /\ Respond(r, CallbackResponse(body[r]), Returned)
  /\ UNCHANGED <<config, normVars, route, body, ret, access_token, payload,
                 response, calls, acquisitions>>

Step(r) ==
  \/ PayStart(r)
  \/ GetAccessToken(r)
  \/ OAuthReturn(r)
  \/ PayAfterToken(r)
  \/ StkReturn(r)
  \/ PayAfterRefresh(r)
  \/ StkRetryReturn(r)
  \/ PayCheck(r)
  \/ TokenStart(r)
  \/ TokenRespond(r)
  \/ SimulateCallback(r)

Next == \E r \in Reqs : Step(r)

Spec == Init /\ [][Next]_vars

\* Every handler that can take a step takes it: the event loop runs every
\* continuation, and every outbound call is assumed to return.
FairSpec == Spec /\ \A r \in Reqs : WF_vars(Step(r))

(***************************************************************************)
(* The phone normaliser and the payload builder on their own, over the     *)
(* phone values that pass the handler's validation.                        *)
(***************************************************************************)
PrefixChars == {"+", "0", " ", "7", "2"}
PhoneTails ==
  {<<>>,
   <<"1","2","3","4","5","6","7">>,
   <<"1","2","3","4","5","6","7","8">>,
   <<"7","1","2","3","4","5","6","7","8">>,
   <<"5","4","7","1","2","3","4","5","6","7","8">>,
   <<"2","5","4","7","1","2","3","4","5","6","7","8">>}

PhoneStrings ==
  {Str(pre \o tail) :
     pre \in UNION {[1..n -> PrefixChars] : n \in 0..MaxPrefixLen},
     tail \in PhoneTails}

\* A phone reaches the normaliser only when it is truthy.
PhoneInputs ==
  {v \in PhoneStrings \cup {Num(712345678), BadObject} : Truthy(v)}

NormInit ==
  /\ InitWith({}, {})
  /\ ~MPESA_MOCK /\ Truthy(CONSUMER_KEY) /\ Truthy(CONSUMER_SECRET)
  /\ phoneIn \in PhoneInputs
  /\ normalized = <<>>
  /\ built = NoPayload

\* What a call of normalizePhone yields: its result, or the TypeError of
\* String(p).
NormalizeResult(p) ==
  IF Truthy(p) /\ StringThrows(p) THEN Thrown ELSE normalizePhone(p)

\* normalizePhone applied to the input, then once more to its result.
Normalize ==
  /\ Len(normalized) < 2
  /\ IF normalized = <<>> THEN TRUE ELSE normalized[Len(normalized)] # Thrown
  /\ normalized' = Append(normalized,
         NormalizeResult(IF normalized = <<>> THEN phoneIn
                         ELSE normalized[Len(normalized)]))
  /\ UNCHANGED <<handlerVars, phoneIn, built>>

\* partyA, phoneNumber and the payload of the pay handler.
BuildFromPhone ==
  /\ built = NoPayload
  /\ ~StringThrows(phoneIn)
  /\ \E now \in Nows :
       built' = BuildPayload(ReqBody(phoneIn, Num(10), Undefined),
                             normalizePhone(phoneIn), now)
  /\ UNCHANGED <<handlerVars, phoneIn, normalized>>

NormNext == Normalize \/ BuildFromPhone

NormSpec == NormInit /\ [][NormNext]_vars

(***************************************************************************)
(* Two POST /api/pay requests in flight at once, their handlers            *)
(* interleaved at every await, against a gateway with a small repertoire   *)
(* of replies.                                                             *)
(***************************************************************************)
ConcBodies ==
  {ReqBody(Phone0712, Num(10), NameAnn), ReqBody(Phone0712, Undefined, NameAnn)}

TokenA == Str(SubSeq(TokenCharsA, 1, MaxTokLen))
TokenB == Str(SubSeq(TokenCharsB, 1, MaxTokLen))

ConcOAuthReplies ==
  {OAuthReply(TRUE, JsonBody(Undefined, Undefined, Undefined, TokenA)),
   OAuthReply(TRUE, JsonBody(Undefined, Undefined, Undefined, TokenB)),
   OAuthReply(FALSE, NoResponse)}

ConcStkReplies ==
  {StkReply(TRUE, StkAccepted),
   StkReply(TRUE, StkRejected),
   StkReply(FALSE, JsonBody(Undefined, Str(InvalidTokenCode), Undefined, Undefined)),
   StkReply(FALSE, NoResponse)}

\* Every reply received so far is one of the repertoire.
ConcGateway ==
  \A r \in Reqs :
    \A i \in 1..Len(calls[r]) :
      \/ calls[r][i].reply = Pending
      \/ calls[r][i].kind = "oauth" /\ calls[r][i].reply \in ConcOAuthReplies
      \/ calls[r][i].kind = "stk" /\ calls[r][i].reply \in ConcStkReplies

InitConc ==
  /\ InitWith(Reqs, ConcBodies)
  /\ NormIdle
  /\ \A r \in Reqs : route[r] = "pay"
  /\ Truthy(CONSUMER_KEY) /\ Truthy(CONSUMER_SECRET)

\* The steps of the POST /api/pay handler.
PayStep(r) ==
  \/ PayStart(r)
  \/ GetAccessToken(r)
  \/ OAuthReturn(r)
  \/ PayAfterToken(r)
  \/ StkReturn(r)
  \/ PayAfterRefresh(r)
  \/ StkRetryReturn(r)
  \/ PayCheck(r)

NextConc == \E r \in Reqs : PayStep(r) /\ ConcGateway'

SpecConc == InitConc /\ [][NextConc]_vars

(***************************************************************************)
(* Vocabulary of the properties.                                           *)
(***************************************************************************)
IsStkCall(c) == c.kind = "stk"
IsOAuthCall(c) == c.kind = "oauth"
StkCallsOf(r) == SelectSeq(calls[r], IsStkCall)
OAuthCallsOf(r) == SelectSeq(calls[r], IsOAuthCall)

IsPay(r) == route[r] = "pay" /\ pc[r] # "idle"
IsTokenRoute(r) == route[r] = "token" /\ pc[r] # "idle"
Done(r) == pc[r] = "done"

\* A property of the request body is present, whatever its value.
Present(v) == v.t # "undefined"

\* The body carries a phone number: a string that is not empty.
HasPhone(b) == b.phone.t = "string" /\ b.phone.s # <<>>

\* The expired-token signature as the specification words it.
ExpiredTokenSignature(d) ==
  /\ d.kind = "json"
  /\ \/ d.errorCode = Str(InvalidTokenCode)
     \/ /\ d.errorMessage.t = "string"
        /\ ContainsIgnoreCase(d.errorMessage.s, InvalidTokenPattern)

\* The first submission has returned and failed.
FirstFailed(r) ==
  /\ Len(StkCallsOf(r)) >= 1
  /\ StkCallsOf(r)[1].reply # Pending
  /\ ~StkCallsOf(r)[1].reply.ok

FirstFailedExpired(r) ==
  FirstFailed(r) /\ ExpiredTokenSignature(StkCallsOf(r)[1].reply.data)

FirstFailedOther(r) ==
  FirstFailed(r) /\ ~ExpiredTokenSignature(StkCallsOf(r)[1].reply.data)

HasBody(d) == d.kind \in {"json", "text"}

\* What the HTTP response to a finished submission has to be.
OutcomeOf(reply) ==
  IF reply.ok
  THEN IF reply.data.kind = "json" /\ reply.data.ResponseCode = Str(<<"0">>)
       THEN [status |-> 200, success |-> TRUE, details |-> AbsentBody]
       ELSE [status |-> 400, success |-> FALSE,
             details |-> IF HasBody(reply.data) THEN reply.data ELSE NullBody]
  ELSE [status |-> 502, success |-> FALSE,
        details |-> IF HasBody(reply.data) THEN reply.data ELSE ErrMessage]

Reflects(resp, reply) ==
  /\ resp.status = OutcomeOf(reply).status
  /\ resp.success = OutcomeOf(reply).success
  /\ resp.details = OutcomeOf(reply).details

(***************************************************************************)
(* C1: a POST /api/pay request never acquires a token more than twice and  *)
(* never submits to the push-payment endpoint more than twice, whatever    *)
(* the gateway replies, a resubmission failing with an expired-token error *)
(* included.                                                               *)
(***************************************************************************)
C1_RetryBudget ==
  \A r \in Reqs :
    IsPay(r) =>
      /\ acquisitions[r] <= 2
      /\ Len(OAuthCallsOf(r)) <= 2
      /\ Len(StkCallsOf(r)) <= 2

\* The resubmission itself failed with an expired-token error.
C1_Witness ==
  \E r \in Reqs :
    /\ IsPay(r) /\ Done(r)
    /\ acquisitions[r] = 2
    /\ Len(StkCallsOf(r)) = 2
    /\ ~StkCallsOf(r)[2].reply.ok
    /\ ExpiredTokenSignature(StkCallsOf(r)[2].reply.data)

(***************************************************************************)
(* C2, as claimed: whenever the first submission fails with an             *)
(* expired-token error, exactly one token refresh and then exactly one     *)
(* resubmission occur, and the HTTP result is that of the resubmission.    *)
(***************************************************************************)
C2_AsClaimed ==
  \A r \in Reqs :
    (IsPay(r) /\ Done(r) /\ FirstFailedExpired(r)) =>
      /\ acquisitions[r] = 2
      /\ Len(StkCallsOf(r)) = 2
      /\ Len(sent[r]) = 1
      /\ Reflects(sent[r][1], StkCallsOf(r)[2].reply)

(***************************************************************************)
(* C2, amended: whenever the first submission fails with an expired-token  *)
(* error, exactly one token refresh occurs; when the refresh yields a      *)
(* token, exactly one resubmission follows it and the HTTP result is that  *)
(* of the resubmission, not of the first attempt; when the refresh yields  *)
(* no token the request ends 502 without a resubmission.                   *)
(***************************************************************************)
C2_RefreshThenResubmit ==
  \A r \in Reqs :
    (IsPay(r) /\ Done(r) /\ FirstFailedExpired(r)) =>
      /\ acquisitions[r] = 2
      /\ Len(sent[r]) = 1
      /\ IF Truthy(access_token[r])
         THEN /\ Len(calls[r]) = 4
              /\ calls[r][2].kind = "stk" /\ calls[r][3].kind = "oauth"
              /\ calls[r][4].kind = "stk"
              /\ Reflects(sent[r][1], calls[r][4].reply)
         ELSE /\ Len(StkCallsOf(r)) = 1
              /\ sent[r][1].status = 502

\* A retry whose outcome differs from the first attempt's: accepted.
C2_Witness ==
  \E r \in Reqs :
    /\ IsPay(r) /\ Done(r) /\ FirstFailedExpired(r)
    /\ StkCallsOf(r)[1].reply.data.errorCode # Str(InvalidTokenCode)
    /\ Len(StkCallsOf(r)) = 2
    /\ StkCallsOf(r)[2].reply = StkReply(TRUE, StkAccepted)
    /\ sent[r][1].status = 200

(***************************************************************************)
(* C3: a first submission that fails without the expired-token signature   *)
(* (no body, or a body with another errorCode and no matching message)     *)
(* is never followed by a second token fetch or a resubmission, and the    *)
(* request ends with status 502.                                           *)
(***************************************************************************)
C3_NonRetryable ==
  \A r \in Reqs :
    (IsPay(r) /\ FirstFailedOther(r)) =>
      /\ acquisitions[r] = 1
      /\ Len(OAuthCallsOf(r)) = 1
      /\ Len(StkCallsOf(r)) = 1
      /\ Done(r)
      /\ Len(sent[r]) = 1
      /\ sent[r][1].status = 502
      /\ ~sent[r][1].success

C3_Witness ==
  \E r \in Reqs :
    /\ IsPay(r) /\ Done(r)
    /\ StkCallsOf(r) # <<>>
    /\ StkCallsOf(r)[1].reply =
         StkReply(FALSE, JsonBody(Undefined, Str(OtherErrorCode),
                                  Str(BadRequestMessage), Undefined))
    /\ sent[r][1].status = 502

(***************************************************************************)
(* C4, as claimed: in mock mode every POST /api/pay request whose body has *)
(* phone and amount ends with 200 {success:true} and makes no outbound     *)
(* call, neither a token fetch nor a submission.  (Stated for bodies with  *)
(* a non-empty phone string and any amount that is present.)               *)
(***************************************************************************)
C4_AsClaimed ==
  \A r \in Reqs :
    (IsPay(r) /\ MPESA_MOCK /\ HasPhone(body[r]) /\ Present(body[r].amount)) =>
      /\ calls[r] = <<>>
      /\ acquisitions[r] = 0
      /\ Done(r) => /\ Len(sent[r]) = 1
                    /\ sent[r][1].status = 200
                    /\ sent[r][1].success

(***************************************************************************)
(* C5: a POST /api/pay request whose body lacks phone or lacks amount ends *)
(* with status 400 and success:false in mock and non-mock mode alike, and  *)
(* acquires no token and submits nothing.                                  *)
(***************************************************************************)
C5_MissingFields ==
  \A r \in Reqs :
    (IsPay(r) /\ (~Present(body[r].phone) \/ ~Present(body[r].amount))) =>
      /\ acquisitions[r] = 0
      /\ calls[r] = <<>>
      /\ pc[r] \in {"start", "done"}
      /\ Done(r) => /\ Len(sent[r]) = 1
                    /\ sent[r][1].status = 400
                    /\ ~sent[r][1].success

\* Non-mock mode with credentials, phone given, amount missing.
C5_Witness ==
  \E r \in Reqs :
    /\ IsPay(r) /\ Done(r)
    /\ ~MPESA_MOCK /\ Truthy(CONSUMER_KEY) /\ Truthy(CONSUMER_SECRET)
    /\ body[r].phone = Phone0712 /\ ~Present(body[r].amount)
    /\ sent[r][1].status = 400

(***************************************************************************)
(* C6, as claimed: validation checks presence only: the 400 "missing phone *)
(* or amount" response is sent only when phone or amount is absent, and    *)
(* every amount that is present, 0 and negative numbers included, passes   *)
(* and is forwarded unchanged as the payload's Amount.  (Stated for bodies *)
(* with a non-empty phone string, so that the amount alone decides.)       *)
(***************************************************************************)
C6_AsClaimed ==
  \A r \in Reqs :
    (IsPay(r) /\ Done(r) /\ HasPhone(body[r])) =>
      /\ (sent[r][1].message = "Missing phone or amount in request body.")
           => ~Present(body[r].amount)
      /\ \A i \in 1..Len(StkCallsOf(r)) :
           StkCallsOf(r)[i].payload.Amount = body[r].amount

(***************************************************************************)
(* C7: in non-mock mode a POST /api/pay request ends with 200              *)
(* {success:true} exactly when its last submission returned a response     *)
(* whose ResponseCode is the string "0"; a 2xx response with any other     *)
(* code ends it with status 400 and that response body as details.         *)
(***************************************************************************)
C7_AcceptedIffCodeZero ==
  \A r \in Reqs :
    (IsPay(r) /\ Done(r) /\ ~MPESA_MOCK) =>
      LET stk  == StkCallsOf(r)
          last == stk[Len(stk)].reply
          accepted == /\ stk # <<>>
                      /\ last.ok
                      /\ last.data.kind = "json"
                      /\ last.data.ResponseCode = Str(<<"0">>)
      IN  /\ Len(sent[r]) = 1
          /\ (sent[r][1].status = 200 /\ sent[r][1].success) <=> accepted
          /\ (sent[r][1].status = 200 \/ sent[r][1].success) => accepted
          /\ (stk # <<>> /\ last.ok /\ ~accepted) =>
               /\ sent[r][1].status = 400
               /\ ~sent[r][1].success
               /\ HasBody(last.data) => sent[r][1].details = last.data

\* A 2xx reply carrying the number 0, not the string "0", is a rejection.
C7_Witness ==
  \E r \in Reqs :
    /\ IsPay(r) /\ Done(r) /\ ~MPESA_MOCK
    /\ Len(StkCallsOf(r)) = 2
    /\ StkCallsOf(r)[2].reply = StkReply(TRUE, StkNumericZero)
    /\ sent[r][1].status = 400
    /\ sent[r][1].details = StkNumericZero

(***************************************************************************)
(* C8, as claimed: POST /api/pay responds 500 when the credentials are not *)
(* configured, and 502 with a details field whenever an outbound call made *)
(* for the request (token fetch, token refresh, submission, resubmission)  *)
(* fails and ends the request.                                             *)
(***************************************************************************)
C8_AsClaimed ==
  \A r \in Reqs :
    (IsPay(r) /\ Done(r) /\ ~MPESA_MOCK /\ ~MissingFields(body[r])) =>
      /\ (~Truthy(CONSUMER_KEY) \/ ~Truthy(CONSUMER_SECRET))
           => sent[r][1].status = 500
      /\ (calls[r] # <<>> /\ ~calls[r][Len(calls[r])].reply.ok) =>
           /\ sent[r][1].status = 502
           /\ sent[r][1].details # AbsentBody

(***************************************************************************)
(* C8, amended: POST /api/pay responds 500 when the first token            *)
(* acquisition yields no token, be it for unconfigured credentials or for  *)
(* a failed token fetch; 502 without details when the token refresh yields *)
(* no token; and 502 with the gateway's error body, or the error message   *)
(* when there is none, as details when the submission or the resubmission  *)
(* fails and ends the request.                                             *)
(***************************************************************************)
C8_FailureStatus ==
  \A r \in Reqs :
    (IsPay(r) /\ Done(r) /\ ~MPESA_MOCK /\ ~MissingFields(body[r])) =>
      LET last == calls[r][Len(calls[r])]
      IN  /\ Len(sent[r]) = 1
          /\ (~Truthy(CONSUMER_KEY) \/ ~Truthy(CONSUMER_SECRET)) =>
               /\ calls[r] = <<>>
               /\ sent[r][1].status = 500
          /\ (calls[r] # <<>> /\ last.kind = "oauth" /\ ~Truthy(access_token[r])) =>
               IF Len(calls[r]) = 1
               THEN sent[r][1].status = 500 /\ sent[r][1].details = AbsentBody
               ELSE sent[r][1].status = 502 /\ sent[r][1].details = AbsentBody
          /\ (calls[r] # <<>> /\ last.kind = "stk" /\ ~last.reply.ok) =>
               /\ sent[r][1].status = 502
               /\ sent[r][1].details =
                    (IF HasBody(last.reply.data) THEN last.reply.data ELSE ErrMessage)

\* The token fetch failed in transport with the credentials configured.
C8_Witness ==
  \E r \in Reqs :
    /\ IsPay(r) /\ Done(r) /\ ~MPESA_MOCK
    /\ Truthy(CONSUMER_KEY) /\ Truthy(CONSUMER_SECRET)
    /\ Len(calls[r]) = 1
    /\ calls[r][1].reply = OAuthReply(FALSE, NoResponse)
    /\ sent[r][1].status = 500

(***************************************************************************)
(* C9: no failure of an outbound call escapes: getAccessToken hands its    *)
(* caller a token or a falsy "no token" value, never an exception, and     *)
(* every request whose outbound calls all return eventually sends exactly  *)
(* one HTTP response and at no time has sent two.                          *)
(***************************************************************************)
C9_OneResponse ==
  /\ [](\A r \in Reqs : Len(sent[r]) <= 1)
  /\ [](\A r \in Reqs : access_token[r] # Thrown)
  /\ \A r \in Reqs :
       (pc[r] = "start") ~> (pc[r] = "done" /\ Len(sent[r]) = 1)

\* A request finished with one response after its submission failed in
\* transport.
C9_Witness ==
  \E r \in Reqs :
    /\ IsPay(r) /\ Done(r)
    /\ Len(sent[r]) = 1
    /\ Len(calls[r]) = 2
    /\ calls[r][2].reply = StkReply(FALSE, NoResponse)

(***************************************************************************)
(* C10, as claimed: for every token the gateway returns, of any length,    *)
(* the token field of a GET /api/token response is at most the first 6     *)
(* characters of the real token followed by an ellipsis, and never holds   *)
(* the full token.                                                         *)
(***************************************************************************)
C10_AsClaimed ==
  \A r \in Reqs :
    (IsTokenRoute(r) /\ Done(r) /\ ~MPESA_MOCK /\ sent[r][1].status = 200) =>
      LET real  == access_token[r].s
          shown == sent[r][1].token.s
      IN  /\ \E k \in 0..MASK_LEN : shown = SubSeq(real, 1, k) \o Ellipsis
          /\ ~StartsWith(shown, real)

(***************************************************************************)
(* Vocabulary of the normaliser's properties.                              *)
(***************************************************************************)
Canonical254 == <<"2","5","4","7","1","2","3","4","5","6","7","8">>

\* A string that starts with 254 and holds no whitespace.
IsCanonical(cs) ==
  /\ Len(cs) >= 3
  /\ cs[1] = "2" /\ cs[2] = "5" /\ cs[3] = "4"
  /\ \A i \in 1..Len(cs) : cs[i] \notin {" ", "\t", "\n"}

\* Two or more + signs lead the string once its whitespace is removed.
LeadsWithTwoPlus(cs) ==
  LET bare == SelectSeq(cs, LAMBDA c : c \notin {" ", "\t", "\n"})
  IN  Len(bare) >= 2 /\ bare[1] = "+" /\ bare[2] = "+"

\* The rules of the normaliser, applied in order to the characters of the
\* input.
ByTheRules(cs) ==
  LET a == SelectSeq(cs, LAMBDA c : c \notin {" ", "\t", "\n"})
      b == IF a # <<>> /\ a[1] = "+" THEN Tail(a) ELSE a
      c == IF b # <<>> /\ b[1] = "0" THEN <<"2","5","4">> \o Tail(b) ELSE b
      is254 == Len(c) >= 3 /\ c[1] = "2" /\ c[2] = "5" /\ c[3] = "4"
      short == /\ Len(c) = 9
               /\ c[1] = "7"
               /\ \A i \in 2..9 :
                    c[i] \in {"0","1","2","3","4","5","6","7","8","9"}
  IN  IF ~is254 /\ short THEN <<"2","5","4">> \o c ELSE c

\* The characters of a string or number input.
InputChars ==
  IF phoneIn.t = "string" THEN phoneIn.s ELSE NatToChars(phoneIn.n)

NormalizedAsRuled ==
  /\ normalized # <<>> =>
       /\ normalized[1] # Thrown
       /\ normalized[1] = Str(ByTheRules(InputChars))
  /\ built # NoPayload =>
       /\ built.PartyA = Str(ByTheRules(InputChars))
       /\ built.PhoneNumber = Str(ByTheRules(InputChars))

ExamplesNormalized ==
  (/\ normalized # <<>>
   /\ phoneIn \in {Str(<<"0","7","1","2","3","4","5","6","7","8">>),
                   Str(<<"+">> \o Canonical254),
                   Str(<<"7","1","2","3","4","5","6","7","8">>)})
    => normalized[1] = Str(Canonical254)

Idempotent ==
  /\ Len(normalized) = 2 => normalized[2] = normalized[1]
  /\ (normalized # <<>> /\ IsCanonical(phoneIn.s)) => normalized[1] = phoneIn

(***************************************************************************)
(* C11, as claimed: for every input string, normalizePhone applied twice   *)
(* gives what it gives applied once, and a string that starts with 254 and *)
(* holds no whitespace is returned unchanged.                              *)
(***************************************************************************)
C11_AsClaimed == phoneIn.t = "string" => Idempotent

(***************************************************************************)
(* C11, amended: for every input string that, once its whitespace is       *)
(* removed, does not begin with two or more + signs, normalizePhone        *)
(* applied twice gives what it gives applied once; and a string that       *)
(* starts with 254 and holds no whitespace is returned unchanged.          *)
(***************************************************************************)
C11_Idempotent ==
  (phoneIn.t = "string" /\ ~LeadsWithTwoPlus(phoneIn.s)) => Idempotent

\* A + and a 0 in front: both rules act in the first application.
C11_Witness ==
  /\ phoneIn = Str(<<"+","0","7","1","2","3","4","5","6","7","8">>)
  /\ Len(normalized) = 2
  /\ normalized[1] = Str(Canonical254)
  /\ normalized[2] = Str(Canonical254)

(***************************************************************************)
(* C12, as claimed: for every phone input normalizePhone never raises and  *)
(* returns the result of the rules applied in order (to string, trim and   *)
(* strip whitespace; drop one leading +; replace a leading 0 by 254;       *)
(* prepend 254 to a 7 followed by 8 digits; otherwise as is);              *)
(* '0712345678', '+254712345678' and '712345678' yield '254712345678';     *)
(* the result is both PartyA and PhoneNumber.                              *)
(***************************************************************************)
C12_AsClaimed ==
  /\ normalized # <<>> => normalized[1] # Thrown
  /\ phoneIn.t \in {"string", "number"} =>
       NormalizedAsRuled /\ ExamplesNormalized

(***************************************************************************)
(* C12, amended: for every phone input that is a string or a number,       *)
(* normalizePhone never raises and returns the result of the rules applied *)
(* in order; '0712345678', '+254712345678' and '712345678' yield           *)
(* '254712345678'; the result is both PartyA and PhoneNumber.              *)
(***************************************************************************)
C12_RulesInOrder ==
  phoneIn.t \in {"string", "number"} =>
    NormalizedAsRuled /\ ExamplesNormalized

\* The short form 712345678 was normalised and built into a payload.
C12_Witness ==
  /\ phoneIn = Str(<<"7","1","2","3","4","5","6","7","8">>)
  /\ normalized # <<>>
  /\ normalized[1] = Str(Canonical254)
  /\ built.PartyA = Str(Canonical254)
  /\ built.PhoneNumber = Str(Canonical254)

(***************************************************************************)
(* C14, as claimed: POST /simulate-callback echoes what it is given: the   *)
(* Amount item is the provided amount and the PhoneNumber item the         *)
(* provided phone, and the defaults 10 and '254708374149' stand only for a *)
(* field that was not provided.  (Stated for bodies whose phone is absent  *)
(* or a non-empty string, so that the amount alone decides.)               *)
(***************************************************************************)
C14_AsClaimed ==
  \A r \in Reqs :
    (/\ route[r] = "simulate-callback" /\ Done(r)
     /\ ~Present(body[r].phone) \/ HasPhone(body[r])) =>
      LET items == sent[r][1].callback
      IN  /\ items.Amount =
               (IF Present(body[r].amount) THEN body[r].amount ELSE Num(10))
          /\ items.PhoneNumber =
               (IF Present(body[r].phone) THEN body[r].phone
                ELSE Str(<<"2","5","4","7","0","8","3","7","4","1","4","9">>))

(***************************************************************************)
(* Vocabulary of the submission properties.                                *)
(***************************************************************************)
\* The reply of a token call hands over no token.
YieldsNoToken(reply) ==
  \/ ~reply.ok
  \/ reply.data.kind # "json"
  \/ reply.data.access_token.t \in {"undefined", "null"}
  \/ reply.data.access_token = Str(<<>>)

(***************************************************************************)
(* C15: within a POST /api/pay request every submission comes right after  *)
(* a successful token acquisition of the same request and carries as       *)
(* bearer the token of that acquisition: the initial submission the first  *)
(* token, the resubmission the refreshed one, never the stale one.         *)
(***************************************************************************)
C15_BearerIsLatestToken ==
  \A r \in Reqs :
    \A i \in 1..Len(calls[r]) :
      calls[r][i].kind = "stk" =>
        /\ i > 1
        /\ calls[r][i - 1].kind = "oauth"
        /\ ~YieldsNoToken(calls[r][i - 1].reply)
        /\ calls[r][i].bearer = calls[r][i - 1].reply.data.access_token

\* The refreshed token differs from the stale one.
C15_Witness ==
  \E r \in Reqs :
    /\ IsPay(r)
    /\ Len(calls[r]) = 4
    /\ calls[r][2].bearer = Str(SubSeq(TokenCharsA, 1, MaxTokLen))
    /\ calls[r][4].bearer = Str(SubSeq(TokenCharsB, 1, MaxTokLen))

(***************************************************************************)
(* C16: the resubmission after a token refresh sends the payload of the    *)
(* first submission: Timestamp, Password, Amount, PartyA, PhoneNumber and  *)
(* every other field are the same in both attempts; the bearer token alone *)
(* may differ.                                                             *)
(***************************************************************************)
C16_SamePayload ==
  \A r \in Reqs :
    Len(StkCallsOf(r)) = 2 =>
      /\ StkCallsOf(r)[2].payload = StkCallsOf(r)[1].payload
      /\ StkCallsOf(r)[2].payload.Timestamp # <<>>
      /\ StkCallsOf(r)[2].payload.Amount = body[r].amount
      /\ StkCallsOf(r)[2].kind = StkCallsOf(r)[1].kind

C16_Witness ==
  \E r \in Reqs :
    /\ IsPay(r)
    /\ Len(StkCallsOf(r)) = 2
    /\ StkCallsOf(r)[1].bearer # StkCallsOf(r)[2].bearer
    /\ StkCallsOf(r)[1].payload = StkCallsOf(r)[2].payload
    /\ StkCallsOf(r)[2].payload.PartyA = Str(Canonical254)
    /\ Len(StkCallsOf(r)[2].payload.Timestamp) = 14

(***************************************************************************)
(* C17: when the first submission fails with an expired-token error and    *)
(* the token refresh yields no token, the request ends with status 502 and *)
(* makes no resubmission.                                                  *)
(***************************************************************************)
C17_RefreshFailed ==
  \A r \in Reqs :
    (/\ IsPay(r) /\ FirstFailedExpired(r)
     /\ Len(calls[r]) >= 3
     /\ pc[r] # "oauth_wait"
     /\ YieldsNoToken(calls[r][3].reply)) =>
      /\ Len(calls[r]) = 3
      /\ Len(StkCallsOf(r)) = 1
      /\ pc[r] \in {"pay_refresh", "done"}
      /\ pc[r] = "pay_refresh" => sent[r] = <<>>
      /\ Done(r) => /\ Len(sent[r]) = 1
                    /\ sent[r][1].status = 502
                    /\ ~sent[r][1].success

\* The refresh failed in transport.
C17_Witness ==
  \E r \in Reqs :
    /\ IsPay(r) /\ Done(r) /\ FirstFailedExpired(r)
    /\ Len(calls[r]) = 3
    /\ calls[r][3].reply = OAuthReply(FALSE, NoResponse)
    /\ sent[r][1].status = 502

(***************************************************************************)
(* C18: whenever a POST /api/pay request reaches the response-code check,  *)
(* a gateway response has been assigned, that of its last submission;      *)
(* every other path has sent its HTTP response and returned, so the        *)
(* catch-all 500 "Server error while processing payment." is never the     *)
(* result of an unassigned response.                                       *)
(***************************************************************************)
C18_ResponseAssigned ==
  \A r \in Reqs :
    /\ pc[r] = "check" =>
         /\ response[r].assigned
         /\ sent[r] = <<>>
         /\ StkCallsOf(r) # <<>>
         /\ StkCallsOf(r)[Len(StkCallsOf(r))].reply.ok
         /\ response[r].data = StkCallsOf(r)[Len(StkCallsOf(r))].reply.data
    /\ \A i \in 1..Len(sent[r]) :
         sent[r][i].message = "Server error while processing payment." =>
           /\ StkCallsOf(r) = <<>>
           /\ body[r].phone.t = "object"

\* The check is reached from the expired-token branch.
C18_Witness ==
  \E r \in Reqs :
    /\ pc[r] = "check"
    /\ FirstFailedExpired(r)
    /\ Len(StkCallsOf(r)) = 2
    /\ response[r].assigned

(***************************************************************************)
(* Vocabulary of the independence property.                                *)
(***************************************************************************)
RepliesOf(cs) == [i \in 1..Len(cs) |-> cs[i].reply]

\* Status and success flag of the terminal response of a POST /api/pay
\* request, from its body, the mock setting and the replies to its own
\* calls in order (token, submission, refresh, resubmission).
ExpectedOutcome(b, mock, replies) ==
  LET failed(s) == [status |-> s, success |-> FALSE]
      of(reply) == [status |-> OutcomeOf(reply).status,
                    success |-> OutcomeOf(reply).success]
  IN  IF ~Truthy(b.phone) \/ ~Truthy(b.amount) THEN failed(400)
      ELSE IF mock THEN [status |-> 200, success |-> TRUE]
      ELSE IF YieldsNoToken(replies[1]) THEN failed(500)
      ELSE IF b.phone.t = "object" THEN failed(500)
      ELSE IF replies[2].ok THEN of(replies[2])
      ELSE IF ~ExpiredTokenSignature(replies[2].data) THEN failed(502)
      ELSE IF YieldsNoToken(replies[3]) THEN failed(502)
      ELSE of(replies[4])

\* How many outbound calls such a request makes in all.
ExpectedCalls(b, mock, replies) ==
  IF ~Truthy(b.phone) \/ ~Truthy(b.amount) \/ mock THEN 0
  ELSE IF YieldsNoToken(replies[1]) \/ b.phone.t = "object" THEN 1
  ELSE IF replies[2].ok \/ ~ExpiredTokenSignature(replies[2].data) THEN 2
  ELSE IF YieldsNoToken(replies[3]) THEN 3
  ELSE 4

(***************************************************************************)
(* C13: with two POST /api/pay requests interleaved at their awaits, each  *)
(* request submits with the token of its own latest acquisition, and its   *)
(* terminal response and the number of calls it made are a function of its *)
(* own body and of the replies to its own calls: two requests with the     *)
(* same body and the same replies end alike, whatever the other request    *)
(* went through.                                                           *)
(***************************************************************************)
C13_Independent ==
  \A r \in Reqs :
    /\ \A i \in 1..Len(calls[r]) :
         calls[r][i].kind = "stk" =>
           /\ i > 1
           /\ calls[r][i].bearer = calls[r][i - 1].reply.data.access_token
           /\ calls[r][i].payload.Amount = body[r].amount
    /\ Done(r) =>
         /\ Len(sent[r]) = 1
         /\ sent[r][1].status =
              ExpectedOutcome(body[r], MPESA_MOCK, RepliesOf(calls[r])).status
         /\ sent[r][1].success =
              ExpectedOutcome(body[r], MPESA_MOCK, RepliesOf(calls[r])).success
         /\ Len(calls[r]) = ExpectedCalls(body[r], MPESA_MOCK, RepliesOf(calls[r]))
    /\ \A q \in Reqs :
         (/\ Done(r) /\ Done(q)
          /\ body[r] = body[q]
          /\ RepliesOf(calls[r]) = RepliesOf(calls[q])) =>
           /\ sent[r] = sent[q]
           /\ \A i \in 1..Len(calls[r]) : calls[r][i].bearer = calls[q][i].bearer

\* One request has failed after a refresh and a resubmission while the
\* other, holding another token, is still waiting for its first submission.
C13_Witness ==
  /\ Done("r1")
  /\ Len(calls["r1"]) = 4
  /\ calls["r1"][2].bearer = TokenA
  /\ calls["r1"][4].bearer = TokenA
  /\ sent["r1"][1].status = 502
  /\ pc["r2"] = "stk_wait"
  /\ calls["r2"][2].bearer = TokenB
=============================================================================
